---- MODULE Spec2Model ----
(***************************************************************************)
(* release-it: the release pipeline of lib/tasks.js (runTasks and its      *)
(* inner release sequence) and the publish client of lib/npm.js.           *)
(*                                                                         *)
(* One behaviour is one call of runTasks(opts).  cfg is the resolved       *)
(* configuration together with the state of the environment the            *)
(* validations look at; pc is the statement of runTasks (or of release, or *)
(* of npm.publish) that runs next; calls is the trace of every operation   *)
(* invoked on a collaborator and of every line logged.                     *)
(***************************************************************************)
EXTENDS Integers, Sequences, FiniteSets, TLC

VARIABLES
    cfg,       \* options of the run and environment facts (never changes)
    pc,        \* next statement of runTasks / release / npm.publish
    target,    \* ClientSet bound in the running release(): "primary" or "dist"
    calls,     \* trace: <<who, operation>> in invocation order
    clients,   \* per ClientSet: isReleased of GitHub, GitLab, isPublished of npm
    v,         \* Version: latestVersion, version, isPreRelease
    runtime,   \* runtime options of config: the v.details last handed to it
    changelog, \* `let changelog` of runTasks: Null until generated
    passed,    \* arguments handed to bump, release and publish calls, in order
    pub,       \* arguments of the npm.publish invocation in progress
    npmRuns,   \* every `npm publish` command run, in order
    handlers,  \* TRUE once the SIGINT/exit handlers are registered
    manifest,  \* the manifest files (pkgFiles) in the working directory
    fired,     \* every invocation of a SIGINT/exit handler, in order
    cwd,       \* shell directory stack, current directory first
    pending,   \* error travelling to the catch block of runTasks, or Null
    thrown,    \* the error as raised at the statement that threw, or Null
    thrownAt,  \* the statement that threw and the length of the trace then
    result     \* settlement of the promise runTasks returned

vars ==
    <<cfg, pc, target, calls, clients, v, runtime, changelog, passed, manifest, fired, pub, npmRuns, handlers, cwd, pending, thrown,
      thrownAt, result>>

Null == "null"

\* Number of one-time passwords the interactive prompt hands out for one publish step.
MaxOtp == 2

-----------------------------------------------------------------------------
(* lib/errors.js *)

ReleaseItError ==
    { "GitCommitError", "GitHubClientError", "InvalidVersionError",
      "FileNotFoundError", "DistRepoStageDirError", "GitRepoError",
      "GitRemoteUrlError", "GitCleanWorkingDirError", "GitUpstreamError",
      "TokenError", "npmTimeoutError", "npmAuthError" }

\* A plain Error, and a plain Error whose text holds "one-time pass".
PlainError == "Error"
OtpError == "OtpError"

\* /one-time pass/.test(err)
IsOtpError(err) == err = OtpError

\* err instanceof ReleaseItError
IsReleaseItError(err) == err \in ReleaseItError

-----------------------------------------------------------------------------
(* Configuration: the options object runTasks works from (tasks.js 33-45)  *)
(* and the facts of the environment that the validations test.             *)

Targets == {"primary", "dist"}

\* Lifecycle hooks of the scripts map; the distribution target has its own map.
Hooks == {"beforeStart", "beforeBump", "afterBump", "beforeStage", "afterRelease"}
DistHooks == {"beforeStage", "afterRelease"}

\* Preconditions the validate() calls of lines 56-60 test.
Preconditions ==
    { "repo", "remote", "dirty", "upstream", "stageDir",
      "ghToken", "glToken", "registry", "slow", "auth" }

\* `increment` option: a fixed bump kind, a value that is no bump kind
\* ("mini" in the tests), or a recommendation strategy ("conventional:...").
Increments == {"patch", "mini", "conventional"}

GitOpts == [commit : BOOLEAN, tag : BOOLEAN, push : BOOLEAN]

\* releaseNotes (a command that prints the notes) is set with release in the
\* combinations below; NoNotes further down is a release without it.
GitHubOpts ==
    { o \in [release : BOOLEAN, assets : BOOLEAN, releaseNotes : BOOLEAN] :
        o.releaseNotes = o.release }

GitLabOpts ==
    { o \in [release : BOOLEAN, releaseNotes : BOOLEAN] :
        o.releaseNotes = o.release }

\* One-time passwords are numbers; NoOtp stands for null/undefined.  The
\* prompt hands out 1..MaxOtp, the otp option may preset one more.
NoOtp == 0
PresetOtp == MaxOtp + 1

\* npm options: private, a preset otp and a dist-tag (Null: none set) only
\* matter when publish is on.
NpmOpts ==
    { o \in [publish : BOOLEAN, private : BOOLEAN, otp : {NoOtp, PresetOtp},
             tag : {Null, "next"}] :
        /\ o.private => o.publish
        /\ o.otp # NoOtp => (o.publish /\ ~o.private)
        /\ o.tag # Null => (o.publish /\ ~o.private /\ o.otp = NoOtp) }

ClientOpts == [git : GitOpts, github : GitHubOpts, gitlab : GitLabOpts, npm : NpmOpts]

AllOn ==
    [ git    |-> [commit |-> TRUE, tag |-> TRUE, push |-> TRUE],
      github |-> [release |-> TRUE, assets |-> TRUE, releaseNotes |-> TRUE],
      gitlab |-> [release |-> TRUE, releaseNotes |-> TRUE],
      npm    |-> [publish |-> TRUE, private |-> FALSE, otp |-> NoOtp, tag |-> Null] ]

AllOff ==
    [ git    |-> [commit |-> FALSE, tag |-> FALSE, push |-> FALSE],
      github |-> [release |-> FALSE, assets |-> FALSE, releaseNotes |-> FALSE],
      gitlab |-> [release |-> FALSE, releaseNotes |-> FALSE],
      npm    |-> [publish |-> FALSE, private |-> FALSE, otp |-> NoOtp, tag |-> Null] ]

\* Defaults of the tool: git steps on, remote releases off, publish on.
Defaults == [AllOff EXCEPT !.git = AllOn.git, !.npm = AllOn.npm]

\* Everything on, without release notes commands.
NoNotes == [AllOn EXCEPT !.github.releaseNotes = FALSE, !.gitlab.releaseNotes = FALSE]

\* Everything on, for a private package / with an otp preset in the options.
Private == [AllOn EXCEPT !.npm.private = TRUE]
Preset == [AllOn EXCEPT !.npm.otp = PresetOtp]

\* Only the git steps and the publish step on, with a dist-tag set.
Tagged == [Defaults EXCEPT !.npm.tag = "next"]

\* Everything on but the publish step.
Unpublished == [AllOn EXCEPT !.npm = AllOff.npm]

\* Only the publish step on.
PublishOnly == [AllOff EXCEPT !.npm = AllOn.npm]

Config(interactive, bad, increment, preRelease, scripts, primary, distRepo, dist, distScripts) ==
    [ isInteractive |-> interactive,
      bad           |-> bad,
      increment     |-> increment,
      preRelease    |-> preRelease,
      scripts       |-> scripts,
      pkgFiles      |-> TRUE,
      requireCleanWorkingDir |-> TRUE,
      opts          |-> [primary |-> primary, dist |-> dist],
      distRepo      |-> distRepo,
      distScripts   |-> distScripts ]

\* The configuration c of a project without manifest files (pkgFiles: null).
NoManifest(c) == [c EXCEPT !.pkgFiles = FALSE]

\* Unattended runs that pass validation, without a distribution repository:
\* every combination of the enable flags of the release sequence.
UnattendedConfigs ==
    { Config(FALSE, {}, "patch", Null, Hooks, o, FALSE, AllOff, {}) : o \in ClientOpts }

\* Interactive runs: every enabled step may be confirmed or declined.
InteractiveConfigs ==
    { NoManifest(Config(TRUE, {}, "patch", pre, Hooks, o, FALSE, AllOff, {})) :
        pre \in {Null, "alpha"}, o \in {AllOn, Defaults, NoNotes, Private, Preset, Tagged} }

\* Unattended runs with a distribution repository: every combination of the
\* flags of the distribution ClientSet.
DistConfigs ==
    { Config(FALSE, {}, "patch", "alpha", {"afterRelease"}, Defaults, TRUE, d, DistHooks) :
        d \in ClientOpts }
    \cup
    { Config(FALSE, {}, "conventional", Null, {}, o, TRUE, d, {}) :
        o \in {AllOn, AllOff, Unpublished}, d \in {AllOn, Defaults, Private, Preset} }

\* Interactive runs with a distribution repository.
InteractiveDistConfigs ==
    { NoManifest(Config(TRUE, {}, "patch", Null, Hooks, o, TRUE, d, DistHooks)) :
        o \in {AllOff, PublishOnly}, d \in {AllOn, Private} }

\* Runs with violated preconditions, several at once included, and runs
\* whose increment resolves to no version.
BadSets ==
    SUBSET {"dirty", "ghToken", "glToken"} \cup { {p} : p \in Preconditions }

InvalidConfigs ==
    { NoManifest(Config(i, b, inc, Null, {}, o, dr, AllOff, {})) :
        i \in BOOLEAN, b \in BadSets, inc \in {"patch", "mini"},
        o \in {AllOn, PublishOnly}, dr \in BOOLEAN }

\* Runs whose increment is a recommendation strategy, with every hook set.
DeferredConfigs ==
    { NoManifest(Config(i, {}, "conventional", Null, Hooks, Defaults, FALSE, AllOff, {})) :
        i \in BOOLEAN }

\* Interactive runs of a project with manifest files, with and without a
\* clean working directory required: the runs that may register the
\* SIGINT/exit handlers.
InterruptConfigs ==
    { [Config(TRUE, {}, "patch", Null, {}, Defaults, FALSE, AllOff, {})
          EXCEPT !.requireCleanWorkingDir = clean] : clean \in BOOLEAN }

Configs ==
    UnattendedConfigs \cup InteractiveConfigs \cup DistConfigs
        \cup InteractiveDistConfigs \cup InvalidConfigs \cup DeferredConfigs
        \cup InterruptConfigs

-----------------------------------------------------------------------------
(* Values of the state before anything is resolved *)

\* Versions: core stands for major.minor.patch, pre for the prerelease
\* identifier; NoVersion is the version not resolved yet (null).
NoVersion == [core |-> 0, pre |-> Null]

NoPublish ==
    [tag |-> Null, version |-> NoVersion, isPreRelease |-> FALSE, otp |-> NoOtp, asked |-> 0]

-----------------------------------------------------------------------------
(* Control flow: the statements of runTasks and of release in source order *)

\* Faulty order: the version is validated only after the manifest bump.
RunTasksStepsLateValidate ==
    << "git.validate", "gitDist.validate", "github.validate", "gitlab.validate",
       "npm.validate", "beforeStart", "version.bump", "changelog",
       "version.prompt", "handlers", "beforeBump", "bump", "version.validate",
       "afterBump", "changelog.deferred", "beforeStage", "git.stage",
       "git.stageDir", "dist.prepare", "release", "dist.pushd", "dist.init",
       "dist.handleTagOptions", "dist.clients", "dist.release", "dist.popd",
       "dist.rm", "metrics.end", "done" >>

\* Faulty order: the tokens are validated before the git repository.
RunTasksStepsTokensFirst ==
    << "github.validate", "gitlab.validate", "git.validate", "gitDist.validate",
       "npm.validate", "beforeStart", "version.bump", "changelog",
       "version.prompt", "version.validate", "handlers", "beforeBump", "bump",
       "afterBump", "changelog.deferred", "beforeStage", "git.stage",
       "git.stageDir", "dist.prepare", "release", "dist.pushd", "dist.init",
       "dist.handleTagOptions", "dist.clients", "dist.release", "dist.popd",
       "dist.rm", "metrics.end", "done" >>

\* Faulty order: the stage directory is removed before the directory is popped.
RunTasksStepsRemoveFirst ==
    << "git.validate", "gitDist.validate", "github.validate", "gitlab.validate",
       "npm.validate", "beforeStart", "version.bump", "changelog",
       "version.prompt", "version.validate", "handlers", "beforeBump", "bump",
       "afterBump", "changelog.deferred", "beforeStage", "git.stage",
       "git.stageDir", "dist.prepare", "release", "dist.pushd", "dist.init",
       "dist.handleTagOptions", "dist.clients", "dist.release", "dist.rm",
       "dist.popd", "metrics.end", "done" >>

\* tasks.js 56-196, one name per awaited statement.
RunTasksSteps ==
    << "git.validate", "gitDist.validate", "github.validate", "gitlab.validate",
       "npm.validate", "beforeStart", "version.bump", "changelog",
       "version.prompt", "version.validate", "handlers", "beforeBump", "bump",
       "afterBump", "changelog.deferred", "beforeStage", "git.stage",
       "git.stageDir", "dist.prepare", "release", "dist.pushd", "dist.init",
       "dist.handleTagOptions", "dist.clients", "dist.release", "dist.popd",
       "dist.rm", "metrics.end", "done" >>

\* Faulty order: the push comes before the commit and the tag.
ReleaseStepsPushFirst ==
    << "r.status", "r.push", "r.commit", "r.tag", "r.gh.notes", "r.gh.release",
       "r.gh.assets", "r.gl.notes", "r.gl.release", "r.publish",
       "r.afterRelease", "r.urls", "r.return" >>

\* tasks.js 138-179, the body of release().
ReleaseSteps ==
    << "r.status", "r.commit", "r.tag", "r.push", "r.gh.notes", "r.gh.release",
       "r.gh.assets", "r.gl.notes", "r.gl.release", "r.publish",
       "r.afterRelease", "r.urls", "r.return" >>

Range(s) == { s[i] : i \in DOMAIN s }

IndexOf(s, x) == CHOOSE i \in DOMAIN s : s[i] = x

\* The statement that follows statement p when p completes normally.
After(p) ==
    IF p \in Range(ReleaseSteps)
    THEN ReleaseSteps[IndexOf(ReleaseSteps, p) + 1]
    ELSE RunTasksSteps[IndexOf(RunTasksSteps, p) + 1]

Call(who, op) == calls' = Append(calls, <<who, op>>)

Called(who, op) == \E i \in DOMAIN calls : calls[i] = <<who, op>>

Count(who, op) == Cardinality({ i \in DOMAIN calls : calls[i] = <<who, op>> })

\* A statement throws: control moves to the catch block of tasks.js 204.
Throw(err) ==
    /\ pending' = err
    /\ thrown' = err
    /\ thrownAt' = [pc |-> pc, n |-> Len(calls')]
    /\ pc' = "catch"

\* A statement completes: control moves to `next`.
Goto(next) ==
    /\ pc' = next
    /\ UNCHANGED <<pending, thrown, thrownAt>>

\* Faulty await: a rejection is caught at the step and the run goes on.
ReturnsRecovering(next, errs) ==
    \/ Goto(next)
    \/ \E err \in errs :
         /\ thrown' = err
         /\ thrownAt' = [pc |-> pc, n |-> Len(calls')]
         /\ pc' = next
         /\ UNCHANGED pending

\* An awaited call on a collaborator resolves or rejects with one of errs.
Returns(next, errs) ==
    \/ Goto(next)
    \/ \E err \in errs : Throw(err)

-----------------------------------------------------------------------------
(* Validation, tasks.js 56-60 *)

\* Git.validate(): repository, remote url, clean working dir, upstream.
GitValidateError ==
    IF "repo" \in cfg.bad THEN "GitRepoError"
    ELSE IF "remote" \in cfg.bad THEN "GitRemoteUrlError"
    ELSE IF "dirty" \in cfg.bad /\ cfg.requireCleanWorkingDir THEN "GitCleanWorkingDirError"
    ELSE IF "upstream" \in cfg.bad THEN "GitUpstreamError"
    ELSE Null

\* GitDist.validate(): dist.stageDir must be a sub directory of the cwd.
GitDistValidateError ==
    IF cfg.distRepo /\ "stageDir" \in cfg.bad THEN "DistRepoStageDirError" ELSE Null

\* GitHub.validate() / GitLab.validate(): the token is required for a release.
GitHubValidateError ==
    IF cfg.opts.primary.github.release /\ "ghToken" \in cfg.bad THEN "TokenError" ELSE Null

GitLabValidateError ==
    IF cfg.opts.primary.gitlab.release /\ "glToken" \in cfg.bad THEN "TokenError" ELSE Null

\* One synchronous or awaited validate() call of runTasks.
Validate(p, op, err) ==
    /\ pc = p
    /\ Call("primary", op)
    /\ IF err = Null THEN Goto(After(p)) ELSE Throw(err)
    /\ UNCHANGED <<cfg, manifest, fired, runtime, changelog, passed, target, clients, v, pub, npmRuns, handlers, cwd, result>>

\* tasks.js 56: await gitClient.validate()
ValidateGit == Validate("git.validate", "git.validate", GitValidateError)

\* tasks.js 57: gitDistClient.validate()
ValidateGitDist == Validate("gitDist.validate", "gitDist.validate", GitDistValidateError)

\* tasks.js 58: ghClient.validate()
ValidateGitHub == Validate("github.validate", "github.validate", GitHubValidateError)

\* tasks.js 59: glClient.validate()
ValidateGitLab == Validate("gitlab.validate", "gitlab.validate", GitLabValidateError)

\* npm.js 7: the deadline of the reachability probe, in milliseconds.
REGISTRY_TIMEOUT == 5000

\* Time `npm ping` takes to settle: within the deadline, or beyond it for a
\* registry that is slow.
PingTime == IF "slow" \in cfg.bad THEN REGISTRY_TIMEOUT + 1 ELSE REGISTRY_TIMEOUT - 1

\* Faulty probe: there is no deadline, a slow registry counts as reachable.
IsRegistryUpNoDeadline == "registry" \notin cfg.bad

\* npm.js 31-33: Promise.race([run('npm ping'), rejectAfter(REGISTRY_TIMEOUT)])
\* resolved to a boolean: true when the probe succeeds before the deadline.
IsRegistryUp == "registry" \notin cfg.bad /\ PingTime < REGISTRY_TIMEOUT

\* npm.js 35-37
IsAuthenticated == "auth" \notin cfg.bad

\* Faulty validate: the registry is probed although publish is off.
NpmValidateCommandsUnguarded(o) ==
    IF ~IsRegistryUp THEN <<"npm ping">> ELSE <<"npm ping", "npm whoami">>

\* npm.js 21-37: validate() of the npm client with options o, as seen in the
\* trace: the commands it runs and the error it throws (or Null).
NpmValidateCommands(o) ==
    IF ~o.publish THEN <<>>
    ELSE IF ~IsRegistryUp THEN <<"npm ping">>
    ELSE <<"npm ping", "npm whoami">>

NpmValidateError(o) ==
    IF ~o.publish THEN Null
    ELSE IF ~IsRegistryUp THEN "npmTimeoutError"
    ELSE IF ~IsAuthenticated THEN "npmAuthError"
    ELSE Null

\* tasks.js 60: await npmClient.validate()
ValidateNpm ==
    /\ pc = "npm.validate"
    /\ LET o == cfg.opts.primary.npm
           cmds == NpmValidateCommands(o)
       IN /\ calls' = calls \o <<<<"primary", "npm.validate">>>>
                            \o [i \in DOMAIN cmds |-> <<"primary", cmds[i]>>]
          /\ IF NpmValidateError(o) = Null
             THEN Goto(After("npm.validate"))
             ELSE Throw(NpmValidateError(o))
    /\ UNCHANGED <<cfg, manifest, fired, runtime, changelog, passed, target, clients, v, pub, npmRuns, handlers, cwd, result>>

-----------------------------------------------------------------------------
(* Lifecycle hooks and plain awaited steps of runTasks *)

\* Faulty hook step: forced, the task is run without a script being configured.
HookAlways(p, who, scripts, name) ==
    /\ pc = p
    /\ Call(who, "hook." \o name)
    /\ Returns(After(p), {PlainError})
    /\ UNCHANGED <<cfg, manifest, fired, runtime, changelog, passed, target, clients, v, pub, npmRuns, handlers, cwd, result>>

\* spinner.show({ enabled: script, task: () => run(script), forced: true }):
\* the script runs when it is configured; a failing script rejects.
Hook(p, who, scripts, name) ==
    /\ pc = p
    /\ IF name \in scripts
       THEN /\ Call(who, "hook." \o name)
            /\ Returns(After(p), {PlainError})
       ELSE /\ Goto(After(p))
            /\ UNCHANGED calls
    /\ UNCHANGED <<cfg, manifest, fired, runtime, changelog, passed, target, clients, v, pub, npmRuns, handlers, cwd, result>>

\* An awaited call that is always made: it resolves, or rejects with one of errs.
Await(p, who, op, errs) ==
    /\ pc = p
    /\ Call(who, op)
    /\ Returns(After(p), errs)
    /\ UNCHANGED <<cfg, manifest, fired, runtime, changelog, passed, target, clients, v, pub, npmRuns, handlers, cwd, result>>

\* tasks.js 69
BeforeStart == Hook("beforeStart", "primary", cfg.scripts, "beforeStart")

-----------------------------------------------------------------------------
(* Version resolution, tasks.js 71-109 *)

\* Version.setLatestVersion(): the latest tag / manifest version of the project.
LatestVersion == [core |-> 1, pre |-> Null]

\* Version.bump({ increment, preRelease }): null for a value that is no bump.
Bumped(latest, increment, preRelease) ==
    IF increment \in {"patch", "conventional"}
    THEN [core |-> latest.core + 1, pre |-> preRelease]
    ELSE NoVersion

\* Version.isRecommendation(increment)
IsRecommendation(increment) == increment = "conventional"

\* Semantic-version order: a prerelease precedes the release of the same core.
Greater(a, b) ==
    \/ a.core > b.core
    \/ a.core = b.core /\ a.pre = Null /\ b.pre # Null

\* Version.validate() accepts: a version is set and exceeds latestVersion.
IsValidVersion(latest, version) == version # NoVersion /\ Greater(version, latest)

\* Versions typed at the `version` prompt: a newer one, and the current one.
TypedVersions == { [core |-> LatestVersion.core + 1, pre |-> Null], LatestVersion }

\* tasks.js 71-75: setLatestVersion, bump, config.setRuntimeOptions(v.details).
VersionBump ==
    /\ pc = "version.bump"
    /\ v' = [ latestVersion |-> LatestVersion,
              version       |-> Bumped(LatestVersion, cfg.increment, cfg.preRelease),
              isPreRelease  |-> cfg.preRelease # Null ]
    /\ runtime' = v'
    /\ Call("primary", "version.bump")
    /\ Goto(After("version.bump"))
    /\ UNCHANGED <<cfg, manifest, fired, changelog, passed, target, clients, pub, npmRuns, handlers, cwd, result>>

\* The text changelogs.generate() resolves to.
Generated == "changelog"

\* tasks.js 81-85: generateAndPreviewChangelog at statement p, when `due`;
\* the text is assigned to `changelog` (tasks.js 92, 124).
GenerateChangelog(p, due) ==
    /\ pc = p
    /\ IF due
       THEN /\ Call("primary", "changelog.generate")
            /\ Returns(After(p), {PlainError})
            /\ changelog' = IF pc' = After(p) THEN Generated ELSE changelog
       ELSE /\ Goto(After(p))
            /\ UNCHANGED <<calls, changelog>>
    /\ UNCHANGED <<cfg, manifest, fired, runtime, passed, target, clients, v, pub, npmRuns, handlers, cwd, result>>

\* Faulty changelog: generated before the bump whatever the increment is.
ChangelogAlways == GenerateChangelog("changelog", TRUE)

\* tasks.js 88-94
Changelog == GenerateChangelog("changelog", ~IsRecommendation(cfg.increment))

\* Faulty prompt: shown for an unresolved version in unattended mode too.
VersionPromptUnattended ==
    /\ pc = "version.prompt"
    /\ IF v.version = NoVersion
       THEN \E typed \in TypedVersions \cup {NoVersion} :
              IF typed = NoVersion
              THEN /\ v' = [v EXCEPT !.version = Bumped(v.latestVersion, "patch", Null)]
                   /\ calls' = calls \o << <<"primary", "prompt.incrementList">> >>
              ELSE /\ v' = [v EXCEPT !.version = typed]
                   /\ calls' = calls \o << <<"primary", "prompt.incrementList">>,
                                           <<"primary", "prompt.version">> >>
       ELSE UNCHANGED <<v, calls>>
    /\ Goto(After("version.prompt"))
    /\ UNCHANGED <<cfg, manifest, fired, runtime, changelog, passed, target, clients, pub, npmRuns, handlers, cwd, result>>

\* tasks.js 97-105: prompt for an increment, else for a literal version.
VersionPrompt ==
    /\ pc = "version.prompt"
    /\ IF cfg.isInteractive /\ v.version = NoVersion
       THEN \E typed \in TypedVersions \cup {NoVersion} :
              IF typed = NoVersion
              THEN /\ v' = [v EXCEPT !.version = Bumped(v.latestVersion, "patch", Null)]
                   /\ calls' = calls \o << <<"primary", "prompt.incrementList">> >>
              ELSE /\ v' = [v EXCEPT !.version = typed]
                   /\ calls' = calls \o << <<"primary", "prompt.incrementList">>,
                                           <<"primary", "prompt.version">> >>
       ELSE UNCHANGED <<v, calls>>
    /\ Goto(After("version.prompt"))
    /\ UNCHANGED <<cfg, manifest, fired, runtime, changelog, passed, target, clients, pub, npmRuns, handlers, cwd, result>>

\* Faulty validation: validate() is not called, any version goes through.
VersionValidateUnchecked ==
    /\ pc = "version.validate"
    /\ runtime' = v
    /\ Goto(After("version.validate"))
    /\ UNCHANGED <<cfg, manifest, fired, changelog, passed, target, calls, clients, v, pub, npmRuns, handlers, cwd, result>>

\* tasks.js 107-109: v.validate(), then config.setRuntimeOptions(v.details).
VersionValidate ==
    /\ pc = "version.validate"
    /\ Call("primary", "version.validate")
    /\ IF IsValidVersion(v.latestVersion, v.version)
       THEN /\ Goto(After("version.validate"))
            /\ runtime' = v
       ELSE /\ Throw("InvalidVersionError")
            /\ UNCHANGED runtime
    /\ UNCHANGED <<cfg, manifest, fired, changelog, passed, target, clients, v, pub, npmRuns, handlers, cwd, result>>

\* tasks.js 112-115: process.on('SIGINT' / 'exit', () => gitClient.reset(pkgFiles))
RegisterHandlers ==
    /\ pc = "handlers"
    /\ handlers' = (cfg.isInteractive /\ cfg.pkgFiles /\ cfg.requireCleanWorkingDir)
    /\ Goto(After("handlers"))
    /\ UNCHANGED <<cfg, manifest, fired, runtime, changelog, passed, target, calls, clients, v, pub, npmRuns, cwd, result>>

-----------------------------------------------------------------------------
(* Bump and stage, tasks.js 117-134 *)

\* tasks.js 118
BeforeBump == Hook("beforeBump", "primary", cfg.scripts, "beforeBump")

\* tasks.js 119: shell.bump(pkgFiles, version) rewrites the manifest files.
Bump ==
    /\ pc = "bump"
    /\ Call("primary", "shell.bump")
    /\ passed' = Append(passed, [who |-> "primary", op |-> "shell.bump", version |-> v.version])
    /\ Returns(After("bump"), {PlainError})
    /\ manifest' = IF pc' = After("bump") /\ cfg.pkgFiles THEN "bumped" ELSE manifest
    /\ UNCHANGED <<cfg, fired, runtime, changelog, target, clients, v, pub, npmRuns, handlers, cwd, result>>

\* tasks.js 120
AfterBump == Hook("afterBump", "primary", cfg.scripts, "afterBump")

\* tasks.js 123-126
DeferredChangelog == GenerateChangelog("changelog.deferred", IsRecommendation(cfg.increment))

\* tasks.js 128
BeforeStage == Hook("beforeStage", "primary", cfg.scripts, "beforeStage")

\* tasks.js 129: gitClient.stage(pkgFiles) adds the manifest files to the index.
GitStage ==
    /\ pc = "git.stage"
    /\ Call("primary", "git.stage")
    /\ Returns(After("git.stage"), {PlainError})
    /\ manifest' = IF pc' = After("git.stage") /\ manifest = "bumped" THEN "staged" ELSE manifest
    /\ UNCHANGED <<cfg, fired, runtime, changelog, passed, target, clients, v, pub, npmRuns, handlers, cwd, result>>

\* tasks.js 130
GitStageDir == Await("git.stageDir", "primary", "git.stageDir", {PlainError})

\* tasks.js 132-134: prepareDistRepo clones the distribution repository into
\* the stage directory and runs its beforeStage script.
PrepareDistRepo ==
    /\ pc = "dist.prepare"
    /\ IF cfg.distRepo
       THEN /\ calls' = calls \o << <<"dist", "prepareDistRepo">> >>
                              \o (IF "beforeStage" \in cfg.distScripts
                                  THEN << <<"dist", "hook.beforeStage">> >>
                                  ELSE <<>>)
            /\ Returns(After("dist.prepare"), {PlainError})
       ELSE /\ Goto(After("dist.prepare"))
            /\ UNCHANGED calls
    /\ UNCHANGED <<cfg, manifest, fired, runtime, changelog, passed, target, clients, v, pub, npmRuns, handlers, cwd, result>>

-----------------------------------------------------------------------------
(* The release sequence, tasks.js 136-179, run for the ClientSet `target` *)

Opts == cfg.opts[target]

\* Answers possible at the confirmation prompt of a step.  prompt.show asks
\* only for an enabled step; spinner.show never asks.
Confirms(enabled) == IF cfg.isInteractive /\ enabled THEN BOOLEAN ELSE {TRUE}

\* Trace entry of the prompt shown for a step, if one is shown.
Asked(prompt, enabled) ==
    IF cfg.isInteractive /\ enabled THEN << <<target, "prompt." \o prompt>> >> ELSE <<>>

\* What the task of a step reads from the runtime options of config: the
\* tag of gitClient.tag() is named after the version found there.
TaskReads(op) ==
    IF op = "git.tag"
    THEN << [who |-> target, op |-> op, version |-> runtime.version] >>
    ELSE <<>>

\* What the task of a step does to the manifest files: the commit of the
\* project takes the staged manifest into the history.
TaskWrites(op, m) ==
    IF op = "git.commit" /\ target = "primary" /\ m = "staged" THEN "committed" ELSE m

\* Faulty step: a step that is skipped rejects.
StepAborting(p, prompt, op, enabled, errs) ==
    /\ pc = p
    /\ \E confirm \in Confirms(enabled) :
         IF enabled /\ confirm
         THEN /\ calls' = calls \o Asked(prompt, enabled) \o << <<target, op>> >>
              /\ passed' = passed \o TaskReads(op)
              /\ Returns(After(p), errs)
              /\ manifest' = IF pc' = After(p) THEN TaskWrites(op, manifest) ELSE manifest
         ELSE /\ calls' = calls \o Asked(prompt, enabled)
              /\ Throw(PlainError)
              /\ UNCHANGED <<passed, manifest>>
    /\ UNCHANGED <<cfg, fired, runtime, changelog, target, clients, v, pub, npmRuns, handlers, cwd, result>>

\* tasks.js 136: step = isInteractive ? prompt.show : spinner.show, applied to
\* { enabled, task, prompt }.  The task is invoked when the step is enabled
\* and, in interactive mode, confirmed; a skipped step resolves.
Step(p, prompt, op, enabled, errs) ==
    /\ pc = p
    /\ \E confirm \in Confirms(enabled) :
         IF enabled /\ confirm
         THEN /\ calls' = calls \o Asked(prompt, enabled) \o << <<target, op>> >>
              /\ passed' = passed \o TaskReads(op)
              /\ Returns(After(p), errs)
              /\ manifest' = IF pc' = After(p) THEN TaskWrites(op, manifest) ELSE manifest
         ELSE /\ calls' = calls \o Asked(prompt, enabled)
              /\ Goto(After(p))
              /\ UNCHANGED <<passed, manifest>>
    /\ UNCHANGED <<cfg, fired, runtime, changelog, target, clients, v, pub, npmRuns, handlers, cwd, result>>

\* A preview read before a step (git status, release notes), made when `due`.
Preview(p, op, due) ==
    /\ pc = p
    /\ IF due
       THEN /\ Call(target, op)
            /\ Returns(After(p), {PlainError})
       ELSE /\ Goto(After(p))
            /\ UNCHANGED calls
    /\ UNCHANGED <<cfg, manifest, fired, runtime, changelog, passed, target, clients, v, pub, npmRuns, handlers, cwd, result>>

\* tasks.js 145
GitStatus == Preview("r.status", "git.status", Opts.git.commit)

\* tasks.js 146
GitCommit == Step("r.commit", "commit", "git.commit", Opts.git.commit, {"GitCommitError"})

\* tasks.js 147
GitTag == Step("r.tag", "tag", "git.tag", Opts.git.tag, {PlainError})

\* tasks.js 148
GitPush == Step("r.push", "push", "git.push", Opts.git.push, {PlainError})

\* tasks.js 151
GitHubNotes ==
    Preview("r.gh.notes", "github.getNotes", Opts.github.release /\ Opts.github.releaseNotes)

\* tasks.js 152-158: the GitHub release step.  A release that succeeds sets
\* isReleased of the GitHub client of this ClientSet.
GitHubRelease ==
    /\ pc = "r.gh.release"
    /\ \E confirm \in Confirms(Opts.github.release) :
         IF Opts.github.release /\ confirm
         THEN /\ calls' = calls \o Asked("ghRelease", TRUE) \o << <<target, "github.release">> >>
              /\ passed' = Append(passed,
                    [ who |-> target, op |-> "github.release", version |-> v.version,
                      isPreRelease |-> v.isPreRelease, changelog |-> changelog ])
              /\ \/ /\ clients' = [clients EXCEPT ![target].ghReleased = TRUE]
                    /\ Goto(After("r.gh.release"))
                 \/ /\ Throw("GitHubClientError")
                    /\ UNCHANGED clients
         ELSE /\ calls' = calls \o Asked("ghRelease", Opts.github.release)
              /\ Goto(After("r.gh.release"))
              /\ UNCHANGED <<clients, passed>>
    /\ UNCHANGED <<cfg, manifest, fired, runtime, changelog, target, v, pub, npmRuns, handlers, cwd, result>>

\* tasks.js 153-160: in interactive mode the upload is the second half of the
\* release task, run when ghRelease() returned a truthy value; in unattended
\* mode it is a step of its own, enabled by github.assets.
UploadsAssets ==
    IF cfg.isInteractive
    THEN Len(calls) > 0 /\ calls[Len(calls)] = <<target, "github.release">>
    ELSE Opts.github.assets

GitHubUploadAssets ==
    /\ pc = "r.gh.assets"
    /\ IF UploadsAssets
       THEN /\ Call(target, "github.uploadAssets")
            /\ Returns(After("r.gh.assets"), {PlainError})
       ELSE /\ Goto(After("r.gh.assets"))
            /\ UNCHANGED calls
    /\ UNCHANGED <<cfg, manifest, fired, runtime, changelog, passed, target, clients, v, pub, npmRuns, handlers, cwd, result>>

\* tasks.js 163
GitLabNotes ==
    Preview("r.gl.notes", "gitlab.getNotes", Opts.gitlab.release /\ Opts.gitlab.releaseNotes)

\* tasks.js 164-165
GitLabRelease ==
    /\ pc = "r.gl.release"
    /\ \E confirm \in Confirms(Opts.gitlab.release) :
         IF Opts.gitlab.release /\ confirm
         THEN /\ calls' = calls \o Asked("glRelease", TRUE) \o << <<target, "gitlab.release">> >>
              /\ passed' = Append(passed,
                    [ who |-> target, op |-> "gitlab.release", version |-> v.version,
                      changelog |-> changelog ])
              /\ \/ /\ clients' = [clients EXCEPT ![target].glReleased = TRUE]
                    /\ Goto(After("r.gl.release"))
                 \/ /\ Throw(PlainError)
                    /\ UNCHANGED clients
         ELSE /\ calls' = calls \o Asked("glRelease", Opts.gitlab.release)
              /\ Goto(After("r.gl.release"))
              /\ UNCHANGED <<clients, passed>>
    /\ UNCHANGED <<cfg, manifest, fired, runtime, changelog, target, v, pub, npmRuns, handlers, cwd, result>>

-----------------------------------------------------------------------------
(* npm publish, tasks.js 167-170 and npm.js 43-80 *)

\* npm.js 8
DefaultTag == "latest"

\* Faulty getTag: the prerelease identifier of the version is not looked at.
GetTagGiven(tag, version, isPreRelease) == IF tag = Null THEN DefaultTag ELSE tag

\* npm.js 43-50: `tag = DEFAULT_TAG` stands in for a tag that is not given;
\* semver.prerelease(version)[0] is the prerelease identifier of the version.
GetTag(tag, version, isPreRelease) ==
    LET given == IF tag = Null THEN DefaultTag ELSE tag
    IN IF ~isPreRelease \/ version = NoVersion
       THEN given
       ELSE IF version.pre # Null THEN version.pre ELSE given

\* Faulty callback: one is passed in unattended mode too.
HasOtpCallbackAlways == TRUE

\* tasks.js 169: the OTP callback exists in interactive mode only.
HasOtpCallback == cfg.isInteractive

\* tasks.js 168-170: the publish step calls
\* npmClient.publish({ version, isPreRelease, otpCallback }); tag and otp take
\* their defaults from the options of the client (npm.js 52), where the tag
\* may be left unset.
PublishStep ==
    /\ pc = "r.publish"
    /\ \E confirm \in Confirms(Opts.npm.publish) :
         IF Opts.npm.publish /\ confirm
         THEN /\ calls' = calls \o Asked("publish", TRUE) \o << <<target, "npm.publish">> >>
              /\ pub' = [ tag |-> Opts.npm.tag, version |-> v.version,
                          isPreRelease |-> v.isPreRelease,
                          otp |-> Opts.npm.otp, asked |-> 0 ]
              /\ passed' = Append(passed,
                    [ who |-> target, op |-> "npm.publish", version |-> v.version,
                      isPreRelease |-> v.isPreRelease ])
              /\ Goto("npm.publish")
         ELSE /\ calls' = calls \o Asked("publish", Opts.npm.publish)
              /\ Goto(After("r.publish"))
              /\ UNCHANGED <<pub, passed>>
    /\ UNCHANGED <<cfg, manifest, fired, runtime, changelog, target, clients, v, npmRuns, handlers, cwd, result>>

\* Faulty publish: the private flag is not looked at.
NpmPublishUnchecked ==
    /\ pc = "npm.publish"
    /\ Call(target, "npm publish")
    /\ npmRuns' = Append(npmRuns,
          [ who |-> target,
            tag |-> GetTag(pub.tag, pub.version, pub.isPreRelease),
            version |-> pub.version,
            isPreRelease |-> pub.isPreRelease,
            otp |-> pub.otp,
            result |-> "running" ])
    /\ Goto("npm.run")
    /\ UNCHANGED <<cfg, manifest, fired, runtime, changelog, passed, target, clients, v, pub, handlers, cwd, result>>

\* npm.js 52-64: one invocation of publish() up to the command it starts.  A
\* private package is skipped with a warning and publish() resolves.
NpmPublish ==
    /\ pc = "npm.publish"
    /\ IF Opts.npm.private
       THEN /\ Call(target, "log.warn.private")
            /\ Goto(After("r.publish"))
            /\ UNCHANGED npmRuns
       ELSE /\ Call(target, "npm publish")
            /\ npmRuns' = Append(npmRuns,
                  [ who |-> target,
                    tag |-> GetTag(pub.tag, pub.version, pub.isPreRelease),
                    version |-> pub.version,
                    isPreRelease |-> pub.isPreRelease,
                    otp |-> pub.otp,
                    result |-> "running" ])
            /\ Goto("npm.run")
    /\ UNCHANGED <<cfg, manifest, fired, runtime, changelog, passed, target, clients, v, pub, handlers, cwd, result>>

\* npm.js 65-67: the command succeeded.
NpmPublished ==
    /\ pc = "npm.run"
    /\ clients' = [clients EXCEPT ![target].isPublished = TRUE]
    /\ npmRuns' = [npmRuns EXCEPT ![Len(npmRuns)].result = "ok"]
    /\ Goto(After("r.publish"))
    /\ UNCHANGED <<cfg, manifest, fired, runtime, changelog, passed, target, calls, v, pub, handlers, cwd, result>>

\* Faulty failure handling: every failure is handed to the OTP callback.
NpmPublishFailedAnyError ==
    /\ pc = "npm.run"
    /\ \E err \in {PlainError, OtpError} :
         LET warned == IF IsOtpError(err) /\ pub.otp # NoOtp
                       THEN << <<target, "log.warn.otp">> >> ELSE <<>>
         IN /\ npmRuns' = [npmRuns EXCEPT ![Len(npmRuns)].result = err]
            /\ IF HasOtpCallback
               THEN /\ calls' = calls \o warned \o << <<target, "otpCallback">> >>
                    /\ Goto("otp.prompt")
               ELSE /\ calls' = calls \o warned
                    /\ Throw(err)
    /\ UNCHANGED <<cfg, manifest, fired, runtime, changelog, passed, target, clients, v, pub, handlers, cwd, result>>

\* npm.js 68-79: the command failed with err.  An OTP failure is handed to
\* the OTP callback when there is one; every other failure is rethrown.
NpmPublishFailed ==
    /\ pc = "npm.run"
    /\ \E err \in {PlainError, OtpError} :
         LET warned == IF IsOtpError(err) /\ pub.otp # NoOtp
                       THEN << <<target, "log.warn.otp">> >> ELSE <<>>
         IN /\ npmRuns' = [npmRuns EXCEPT ![Len(npmRuns)].result = err]
            /\ IF IsOtpError(err) /\ HasOtpCallback
               THEN /\ calls' = calls \o warned \o << <<target, "otpCallback">> >>
                    /\ Goto("otp.prompt")
               ELSE /\ calls' = calls \o warned
                    /\ Throw(err)
    /\ UNCHANGED <<cfg, manifest, fired, runtime, changelog, passed, target, clients, v, pub, handlers, cwd, result>>

\* Faulty retry: the task publishes again with the password it had before.
OtpSuppliedStale ==
    /\ pc = "otp.prompt"
    /\ pub.asked < MaxOtp
    /\ pub' = [pub EXCEPT !.asked = @ + 1]
    /\ Goto("npm.publish")
    /\ UNCHANGED <<cfg, manifest, fired, runtime, changelog, passed, target, calls, clients, v, npmRuns, handlers, cwd, result>>

\* tasks.js 169, npm.js 75: otpCallback is prompt.show({ prompt: 'otp', task })
\* with task = otp => this.publish({ tag, version, isPreRelease, otp,
\* otpCallback }).  The prompt supplies a password and runs the task, or is
\* left without one and resolves.  The k-th password typed in a run is k.
OtpSupplied ==
    /\ pc = "otp.prompt"
    /\ pub.asked < MaxOtp
    /\ pub' = [pub EXCEPT !.otp = pub.asked + 1, !.asked = @ + 1]
    /\ Goto("npm.publish")
    /\ UNCHANGED <<cfg, manifest, fired, runtime, changelog, passed, target, calls, clients, v, npmRuns, handlers, cwd, result>>

OtpDeclined ==
    /\ pc = "otp.prompt"
    /\ Goto(After("r.publish"))
    /\ UNCHANGED <<cfg, manifest, fired, runtime, changelog, passed, target, calls, clients, v, pub, npmRuns, handlers, cwd, result>>

-----------------------------------------------------------------------------
(* Wrap up of the release sequence, tasks.js 172-179 *)

Scripts == IF target = "primary" THEN cfg.scripts ELSE cfg.distScripts

\* tasks.js 173-174
AfterRelease == Hook("r.afterRelease", target, Scripts, "afterRelease")

\* Faulty wrap-up: a line for every client whose step is enabled.
UrlLinesEnabled ==
    (IF Opts.github.release THEN << <<target, "log.url.github">> >> ELSE <<>>)
    \o (IF Opts.gitlab.release THEN << <<target, "log.url.gitlab">> >> ELSE <<>>)
    \o (IF Opts.npm.publish THEN << <<target, "log.url.npm">> >> ELSE <<>>)

\* Faulty wrap-up: the lines of the clients of the project are logged by
\* every release sequence, the one of the distribution repository too.
UrlLinesShared ==
    (IF clients["primary"].ghReleased THEN << <<"primary", "log.url.github">> >> ELSE <<>>)
    \o (IF clients["primary"].glReleased THEN << <<"primary", "log.url.gitlab">> >> ELSE <<>>)
    \o (IF clients["primary"].isPublished THEN << <<"primary", "log.url.npm">> >> ELSE <<>>)
    \o IF target = "primary" THEN <<>> ELSE
         (IF clients[target].ghReleased THEN << <<target, "log.url.github">> >> ELSE <<>>)
         \o (IF clients[target].glReleased THEN << <<target, "log.url.gitlab">> >> ELSE <<>>)
         \o (IF clients[target].isPublished THEN << <<target, "log.url.npm">> >> ELSE <<>>)

\* tasks.js 176-178: one line per client whose flag is set.
UrlLines ==
    (IF clients[target].ghReleased THEN << <<target, "log.url.github">> >> ELSE <<>>)
    \o (IF clients[target].glReleased THEN << <<target, "log.url.gitlab">> >> ELSE <<>>)
    \o (IF clients[target].isPublished THEN << <<target, "log.url.npm">> >> ELSE <<>>)

LogUrls ==
    /\ pc = "r.urls"
    /\ calls' = calls \o UrlLines
    /\ Goto(After("r.urls"))
    /\ UNCHANGED <<cfg, manifest, fired, runtime, changelog, passed, target, clients, v, pub, npmRuns, handlers, cwd, result>>

\* release() returns to its caller: tasks.js 181 or tasks.js 189.
ReleaseReturn ==
    /\ pc = "r.return"
    /\ Goto(After(IF target = "primary" THEN "release" ELSE "dist.release"))
    /\ UNCHANGED <<cfg, manifest, fired, runtime, changelog, passed, target, calls, clients, v, pub, npmRuns, handlers, cwd, result>>

\* tasks.js 181: await release({ gitClient, ghClient, glClient, npmClient, scripts })
ReleasePrimary ==
    /\ pc = "release"
    /\ target' = "primary"
    /\ Goto(ReleaseSteps[1])
    /\ UNCHANGED <<cfg, manifest, fired, runtime, changelog, passed, calls, clients, v, pub, npmRuns, handlers, cwd, result>>

-----------------------------------------------------------------------------
(* The distribution sub-release, tasks.js 183-192 *)

\* Faulty guard: the block is entered without a distribution repository.
DistPushdAlways ==
    /\ pc = "dist.pushd"
    /\ Call("run", "shell.pushd")
    /\ \/ /\ cwd' = <<"stageDir">> \o cwd
          /\ Goto(After("dist.pushd"))
       \/ /\ Throw(PlainError)
          /\ UNCHANGED cwd
    /\ UNCHANGED <<cfg, manifest, fired, runtime, changelog, passed, target, clients, v, pub, npmRuns, handlers, result>>

\* tasks.js 183-185: without a distribution repository the block is skipped.
DistPushd ==
    /\ pc = "dist.pushd"
    /\ IF cfg.distRepo
       THEN /\ Call("run", "shell.pushd")
            /\ \/ /\ cwd' = <<"stageDir">> \o cwd
                  /\ Goto(After("dist.pushd"))
               \/ /\ Throw(PlainError)
                  /\ UNCHANGED cwd
       ELSE /\ Goto("metrics.end")
            /\ UNCHANGED <<calls, cwd>>
    /\ UNCHANGED <<cfg, manifest, fired, runtime, changelog, passed, target, clients, v, pub, npmRuns, handlers, result>>

\* tasks.js 186
DistInit == Await("dist.init", "dist", "git.init", {PlainError})

\* tasks.js 187
DistHandleTagOptions ==
    Await("dist.handleTagOptions", "dist", "git.handleTagOptions", {PlainError})

\* tasks.js 188
DistClients == Await("dist.clients", "dist", "getDistRepoClients", {})

\* getDistRepoClients(): the GitHub, GitLab and npm clients of the
\* distribution repository, a ClientSet of its own.
GetDistRepoClients == "dist"

\* tasks.js 189: await release(Object.assign({ gitClient: gitDistClient, scripts }, distClients))
ReleaseDist ==
    /\ pc = "dist.release"
    /\ target' = GetDistRepoClients
    /\ Goto(ReleaseSteps[1])
    /\ UNCHANGED <<cfg, manifest, fired, runtime, changelog, passed, calls, clients, v, pub, npmRuns, handlers, cwd, result>>

\* tasks.js 190
DistPopd ==
    /\ pc = "dist.popd"
    /\ Call("run", "shell.popd")
    /\ \/ /\ cwd' = Tail(cwd)
          /\ Goto(After("dist.popd"))
       \/ /\ Throw(PlainError)
          /\ UNCHANGED cwd
    /\ UNCHANGED <<cfg, manifest, fired, runtime, changelog, passed, target, clients, v, pub, npmRuns, handlers, result>>

\* tasks.js 191
DistRemoveStageDir == Await("dist.rm", "run", "rm stageDir", {PlainError})

-----------------------------------------------------------------------------
(* Completion, tasks.js 194-213 *)

\* tasks.js 194
MetricsEnd == Await("metrics.end", "run", "metrics.end", {})

\* tasks.js 196-203
Done ==
    /\ pc = "done"
    /\ Call("run", "log.done")
    /\ result' = [ state |-> "resolved", error |-> Null,
                   latestVersion |-> v.latestVersion, version |-> v.version ]
    /\ pc' = "resolved"
    /\ UNCHANGED <<cfg, manifest, fired, runtime, changelog, passed, target, clients, v, pub, npmRuns, handlers, cwd, pending, thrown, thrownAt>>

\* Faulty catch: every error is logged as a user-facing message.
ErrorLogUserFacing(err) == "log.error"

\* tasks.js 206-211: how the caught error is logged.
ErrorLog(err) == IF IsReleaseItError(err) THEN "log.error" ELSE "console.error"

\* tasks.js 204-213
Catch ==
    /\ pc = "catch"
    /\ calls' = calls \o << <<"run", "metrics.trackException">>, <<"run", ErrorLog(pending)>> >>
    /\ result' = [ state |-> "rejected", error |-> pending,
                   latestVersion |-> NoVersion, version |-> NoVersion ]
    /\ pc' = "rejected"
    /\ UNCHANGED <<cfg, manifest, fired, runtime, changelog, passed, target, clients, v, pub, npmRuns, handlers, cwd, pending, thrown, thrownAt>>

-----------------------------------------------------------------------------
(* The SIGINT and exit handlers registered at tasks.js 112-115 *)

\* Number of interrupt signals delivered to the process in one run.
MaxSigint == 1

ManifestStates == {"clean", "bumped", "staged", "committed"}

\* gitClient.reset(pkgFiles): the manifest files are taken back to HEAD.
ResetManifest(m) == IF m \in {"bumped", "staged"} THEN "clean" ELSE m

\* The process has emitted 'exit'.
Exited == \E k \in DOMAIN fired : fired[k].event = "exit"

\* Resets started by a handler and not completed yet.
Resetting == { k \in DOMAIN fired : fired[k].reset = "running" }

\* A handler is invoked: it starts gitClient.reset(pkgFiles) and returns.
Fire(event) ==
    fired' = Append(fired, [event |-> event, manifest |-> manifest, reset |-> "running"])

\* Faulty handler: it returns without resetting anything.
SigintIgnored ==
    /\ handlers
    /\ ~Exited
    /\ Cardinality({ k \in DOMAIN fired : fired[k].event = "SIGINT" }) < MaxSigint
    /\ fired' = Append(fired, [event |-> "SIGINT", manifest |-> manifest, reset |-> "done"])
    /\ UNCHANGED <<cfg, pc, target, calls, clients, v, runtime, changelog, passed, manifest,
                   pub, npmRuns, handlers, cwd, pending, thrown, thrownAt, result>>

\* tasks.js 113: process.on('SIGINT', () => gitClient.reset(pkgFiles)).  With
\* a listener installed the signal does not end the process: the listener
\* runs between two statements of the pipeline, or while one is awaited, and
\* the pipeline goes on.
Sigint ==
    /\ handlers
    /\ ~Exited
    /\ Cardinality({ k \in DOMAIN fired : fired[k].event = "SIGINT" }) < MaxSigint
    /\ Fire("SIGINT")
    /\ UNCHANGED <<cfg, pc, target, calls, clients, v, runtime, changelog, passed, manifest,
                   pub, npmRuns, handlers, cwd, pending, thrown, thrownAt, result>>

\* tasks.js 114: process.on('exit', () => gitClient.reset(pkgFiles)).  The
\* process exits once runTasks has settled.
Exit ==
    /\ handlers
    /\ ~Exited
    /\ pc \in {"resolved", "rejected"}
    /\ Fire("exit")
    /\ UNCHANGED <<cfg, pc, target, calls, clients, v, runtime, changelog, passed, manifest,
                   pub, npmRuns, handlers, cwd, pending, thrown, thrownAt, result>>

\* A reset started by a handler completes.
ResetDone ==
    /\ \E k \in Resetting : fired' = [fired EXCEPT ![k].reset = "done"]
    /\ manifest' = ResetManifest(manifest)
    /\ UNCHANGED <<cfg, pc, target, calls, clients, v, runtime, changelog, passed,
                   pub, npmRuns, handlers, cwd, pending, thrown, thrownAt, result>>

-----------------------------------------------------------------------------

\* State after the constructors of tasks.js 22-54.
Init ==
    /\ cfg \in Configs
    /\ pc = RunTasksSteps[1]
    /\ target = "primary"
    /\ calls = <<>>
    /\ clients = [t \in Targets |->
                    [ghReleased |-> FALSE, glReleased |-> FALSE, isPublished |-> FALSE]]
    /\ v = [latestVersion |-> NoVersion, version |-> NoVersion, isPreRelease |-> FALSE]
    /\ manifest = "clean"
    /\ fired = <<>>
    /\ runtime = v
    /\ changelog = Null
    /\ passed = <<>>
    /\ pub = NoPublish
    /\ npmRuns = <<>>
    /\ handlers = FALSE
    /\ cwd = <<"project">>
    /\ pending = Null
    /\ thrown = Null
    /\ thrownAt = [pc |-> Null, n |-> 0]
    /\ result = [state |-> "pending", error |-> Null,
                 latestVersion |-> NoVersion, version |-> NoVersion]

Next ==
    \/ ValidateGit \/ ValidateGitDist \/ ValidateGitHub \/ ValidateGitLab \/ ValidateNpm
    \/ BeforeStart \/ VersionBump \/ Changelog \/ VersionPrompt \/ VersionValidate
    \/ RegisterHandlers \/ BeforeBump \/ Bump \/ AfterBump \/ DeferredChangelog
    \/ BeforeStage \/ GitStage \/ GitStageDir \/ PrepareDistRepo
    \/ ReleasePrimary
    \/ GitStatus \/ GitCommit \/ GitTag \/ GitPush
    \/ GitHubNotes \/ GitHubRelease \/ GitHubUploadAssets
    \/ GitLabNotes \/ GitLabRelease
    \/ PublishStep \/ NpmPublish \/ NpmPublished \/ NpmPublishFailed
    \/ OtpSupplied \/ OtpDeclined
    \/ AfterRelease \/ LogUrls \/ ReleaseReturn
    \/ DistPushd \/ DistInit \/ DistHandleTagOptions \/ DistClients \/ ReleaseDist
    \/ DistPopd \/ DistRemoveStageDir
    \/ MetricsEnd \/ Done \/ Catch
    \/ Sigint \/ Exit \/ ResetDone

Spec == Init /\ [][Next]_vars

-----------------------------------------------------------------------------
(* Properties *)

Ops(who) == { calls[i][2] : i \in { j \in DOMAIN calls : calls[j][1] = who } }

AllOps == { calls[i][2] : i \in DOMAIN calls }

Rejected(err) == result.state = "rejected" /\ result.error = err

\* Errors raised by the validations of the run.
ValidationErrors ==
    { "GitRepoError", "GitRemoteUrlError", "GitCleanWorkingDirError",
      "GitUpstreamError", "DistRepoStageDirError", "TokenError",
      "npmTimeoutError", "npmAuthError", "InvalidVersionError" }

\* Operations that change the manifest, the repository, a remote or the registry.
MutatingOps ==
    { "shell.bump", "git.stage", "git.stageDir", "git.commit", "git.tag", "git.push",
      "github.release", "github.uploadAssets", "gitlab.release",
      "npm.publish", "npm publish" }

\* C1: a run that ends with a validation error (git repository, remote url,
\* clean working dir, upstream, stage directory, token, npm registry or
\* authentication, invalid version) has invoked no mutating operation: no
\* manifest bump, stage, commit, tag, push, release, upload or publish.
C1_ValidationBeforeMutation ==
    (result.state = "rejected" /\ result.error \in ValidationErrors)
        => AllOps \cap MutatingOps = {}

\* A run rejected with InvalidVersionError after the version prompt was shown.
C1_Witness ==
    /\ Rejected("InvalidVersionError")
    /\ "prompt.version" \in AllOps

DirtyViolated == "dirty" \in cfg.bad /\ cfg.requireCleanWorkingDir

TokenViolated ==
    \/ cfg.opts.primary.github.release /\ "ghToken" \in cfg.bad
    \/ cfg.opts.primary.gitlab.release /\ "glToken" \in cfg.bad

\* C2: with only the working directory, the tokens and the increment at
\* fault, a dirty working directory is reported before an absent token and
\* an absent token before an invalid increment: the run is rejected with the
\* error of the first violated precondition, and no validation after the
\* failing one has been called.
C2_ValidationOrder ==
    (result.state = "rejected" /\ cfg.bad \subseteq {"dirty", "ghToken", "glToken"})
        => /\ DirtyViolated =>
                /\ result.error = "GitCleanWorkingDirError"
                /\ AllOps \cap { "gitDist.validate", "github.validate", "gitlab.validate",
                                 "npm.validate", "version.validate" } = {}
           /\ (~DirtyViolated /\ TokenViolated) =>
                /\ result.error = "TokenError"
                /\ AllOps \cap {"npm.validate", "version.validate"} = {}
                /\ "github.validate" \in AllOps
                /\ (cfg.opts.primary.github.release /\ "ghToken" \in cfg.bad)
                      => "gitlab.validate" \notin AllOps
           /\ result.error = "InvalidVersionError" => (~DirtyViolated /\ ~TokenViolated)

\* Dirty working directory, absent tokens and an invalid increment at once.
C2_Witness ==
    /\ Rejected("GitCleanWorkingDirError")
    /\ cfg.bad = {"dirty", "ghToken", "glToken"}
    /\ TokenViolated
    /\ cfg.increment = "mini"

\* Statements of release() and of the publish() it awaits.
InRelease(p) == p \in Range(ReleaseSteps) \cup {"npm.publish", "npm.run", "otp.prompt"}

\* What the catch block of runTasks writes to the trace.
CatchOps ==
    { <<"run", "metrics.trackException">>, <<"run", "log.error">>, <<"run", "console.error">> }

\* C3: once a step of the release sequence has thrown, nothing of the run
\* follows but the catch block: no later step, no afterRelease hook, no URL
\* line, no distribution sub-release, no completion line, and runTasks does
\* not resolve.
C3_ThrowAborts ==
    (thrown # Null /\ InRelease(thrownAt.pc))
        => /\ pc \in {"catch", "rejected"}
           /\ result.state # "resolved"
           /\ "log.done" \notin AllOps
           /\ \A i \in DOMAIN calls : i > thrownAt.n => calls[i] \in CatchOps

\* The push of the primary sequence failed in a run that has an afterRelease
\* hook and a distribution repository.
C3_Witness ==
    /\ pc = "rejected"
    /\ thrownAt.pc = "r.push"
    /\ target = "primary"
    /\ cfg.distRepo
    /\ "afterRelease" \in cfg.scripts

\* Operations of one run of the release sequence, in source order.
SequenceOrder ==
    << "git.commit", "git.tag", "git.push", "github.release", "github.uploadAssets",
       "gitlab.release", "npm.publish", "hook.afterRelease",
       "log.url.github", "log.url.gitlab", "log.url.npm" >>

IsSequenceOp(call) == call[2] \in Range(SequenceOrder)

\* The operations of SequenceOrder invoked on the ClientSet who, in trace order.
SequenceOf(who) ==
    SelectSeq(calls, LAMBDA call : call[1] = who /\ IsSequenceOp(call))

\* C4: for each ClientSet the operations commit, tag, push, GitHub release,
\* asset upload, GitLab release, publish step, afterRelease hook and URL
\* lines appear in the trace in exactly this order, each at most once.
C4_FixedOrder ==
    \A who \in Targets :
        LET ops == SequenceOf(who)
        IN \A k \in 1..(Len(ops) - 1) :
              IndexOf(SequenceOrder, ops[k][2]) < IndexOf(SequenceOrder, ops[k + 1][2])

\* A release sequence in which every operation of the order was invoked.
C4_Witness ==
    /\ pc = "r.return"
    /\ Range(SequenceOrder) \subseteq Ops(target)

\* The `npm publish` commands run for the ClientSet who, in order.
RunsOf(who) == SelectSeq(npmRuns, LAMBDA r : r.who = who)

PublishPcs == {"npm.publish", "npm.run", "otp.prompt"}

\* The last command run for who was a retry and succeeded.
RetrySucceeded(who) ==
    LET runs == RunsOf(who)
    IN Len(runs) >= 2 /\ runs[Len(runs)].result = "ok"

\* C5: an OTP failure of a publish command is handed to the OTP callback
\* when there is one, never thrown; each retry follows an OTP failure, carries
\* the password just supplied and the tag, version and isPreRelease of the
\* attempt before; when a retry succeeds, isPublished is set, the publish
\* call has not thrown, control is past the publish step, the afterRelease
\* hook has run by the time the URL lines are due, and no step ran twice.
C5_OtpRetry ==
    /\ IsOtpError(thrown) => ~cfg.isInteractive
    /\ \A who \in Targets :
         LET runs == RunsOf(who)
         IN /\ cfg.isInteractive =>
                 Count(who, "otpCallback")
                     = Cardinality({ k \in DOMAIN runs : IsOtpError(runs[k].result) })
            /\ \A k \in 2..Len(runs) :
                 /\ IsOtpError(runs[k - 1].result)
                 /\ runs[k].otp = k - 1
                 /\ runs[k].otp # runs[k - 1].otp
                 /\ runs[k].tag = runs[k - 1].tag
                 /\ runs[k].version = runs[k - 1].version
                 /\ runs[k].isPreRelease = runs[k - 1].isPreRelease
            /\ RetrySucceeded(who) =>
                 /\ clients[who].isPublished
                 /\ target = who => /\ pc \notin PublishPcs
                                    /\ thrownAt.pc \notin PublishPcs
                 /\ (target = who /\ pc = "r.urls" /\ "afterRelease" \in Scripts)
                       => Called(who, "hook.afterRelease")
                 /\ \A op \in { "git.commit", "git.tag", "git.push", "github.release",
                                "github.uploadAssets", "gitlab.release", "npm.publish" } :
                       Count(who, op) <= 1

\* The second publish attempt succeeded and the afterRelease hook has run.
C5_Witness ==
    /\ RetrySucceeded("primary")
    /\ target = "primary"
    /\ pc = "r.urls"
    /\ Called("primary", "hook.afterRelease")
    /\ Called("primary", "git.push")

\* C6 as stated: whenever the publish call fails with an error that is not
\* OTP-related, or without an OTP callback, the callback was never invoked,
\* exactly one publish command was attempted, isPublished is not set and the
\* error is the one of the command.
C6_Original ==
    (thrownAt.pc = "npm.run" /\ (~IsOtpError(thrown) \/ ~cfg.isInteractive))
        => /\ ~Called(target, "otpCallback")
           /\ Len(RunsOf(target)) = 1
           /\ ~clients[target].isPublished
           /\ pending = RunsOf(target)[1].result

\* C6 amended: in unattended mode the callback is never invoked.  A publish
\* call that fails throws the error of its last command unchanged, an error
\* that is not OTP-related unless there is no callback, and leaves
\* isPublished unset; when it is the first command that failed, the callback
\* was not invoked and one command was attempted; otherwise there was one
\* callback invocation and one more command per password supplied.
C6_ErrorPropagates ==
    /\ ~cfg.isInteractive => "otpCallback" \notin AllOps
    /\ thrownAt.pc = "npm.run" =>
         LET runs == RunsOf(target)
         IN /\ ~IsOtpError(thrown) \/ ~cfg.isInteractive
            /\ thrown = runs[Len(runs)].result
            /\ pending = thrown
            /\ ~clients[target].isPublished
            /\ Len(runs) = pub.asked + 1
            /\ Count(target, "otpCallback") = pub.asked
            /\ pub.asked = 0 => (~Called(target, "otpCallback") /\ Len(runs) = 1)

\* An unattended publish rejected on an OTP failure.
C6_Witness ==
    /\ pc = "rejected"
    /\ thrownAt.pc = "npm.run"
    /\ ~cfg.isInteractive
    /\ Rejected(OtpError)

RegistryCommands == {"npm ping", "npm whoami", "npm publish"}

\* C7: for a ClientSet whose npm.publish is off no registry command (ping,
\* whoami, publish) is run, publish() is not called and isPublished stays
\* false, whatever the other enable flags are.
C7_PublishDisabled ==
    \A who \in Targets :
        ~cfg.opts[who].npm.publish
            => /\ ~clients[who].isPublished
               /\ Ops(who) \cap RegistryCommands = {}
               /\ "npm.publish" \notin Ops(who)

\* A finished run with everything but publish on for the primary ClientSet
\* and a distribution ClientSet that published.
C7_Witness ==
    /\ pc = "resolved"
    /\ cfg.opts.primary = Unpublished
    /\ clients.primary.ghReleased
    /\ clients.dist.isPublished

\* C8: for a private package publish() runs no publish command, warns once,
\* resolves without error and leaves isPublished false, so that no package
\* URL is logged, and the sequence goes on after it.
C8_PrivateSkipped ==
    \A who \in Targets :
        cfg.opts[who].npm.private
            => /\ "npm publish" \notin Ops(who)
               /\ ~clients[who].isPublished
               /\ "log.url.npm" \notin Ops(who)
               /\ Count(who, "log.warn.private")
                     = (IF Called(who, "npm.publish") /\ ~(target = who /\ pc = "npm.publish")
                        THEN 1 ELSE 0)
               /\ target = who => /\ pc \notin {"npm.run", "otp.prompt"}
                                  /\ thrownAt.pc \notin PublishPcs
               /\ (Len(calls) > 0 /\ calls[Len(calls)] = <<who, "log.warn.private">>)
                     => (thrown = Null /\ pc \notin PublishPcs)

\* A finished run whose private package was skipped.
C8_Witness ==
    /\ pc = "resolved"
    /\ cfg.opts.primary.npm.private
    /\ Called("primary", "log.warn.private")
    /\ Called("primary", "hook.afterRelease")

\* C9: once runTasks has settled, resolved or rejected, the current working
\* directory is the one from before shell.pushd(stageDir).
C9_CwdRestored == result.state # "pending" => cwd = <<"project">>

\* C10: a step that throws makes runTasks reject with that same error and
\* the error is not replaced on the way; a run that resolves has had no
\* throw; before the rejection the exception report is attempted, then the
\* error is logged once: through log.error when it is a ReleaseItError,
\* through console.error otherwise; neither happens in a run that has not
\* failed.
C10_NoErrorSwallowed ==
    /\ thrown # Null => (pc \in {"catch", "rejected"} /\ pending = thrown)
    /\ result.state = "resolved" => thrown = Null
    /\ pc = "rejected" =>
         /\ Rejected(thrown)
         /\ calls[Len(calls) - 1] = <<"run", "metrics.trackException">>
         /\ calls[Len(calls)] =
               <<"run", IF thrown \in ReleaseItError THEN "log.error" ELSE "console.error">>
         /\ Count("run", "metrics.trackException") = 1
         /\ Count("run", "log.error") + Count("run", "console.error") = 1
    /\ pc # "rejected" => Range(calls) \cap CatchOps = {}

\* A run rejected with an error that is no ReleaseItError, thrown by a step.
C10_Witness ==
    /\ pc = "rejected"
    /\ Rejected(PlainError)
    /\ thrownAt.pc = "r.tag"
    /\ Called("run", "console.error")

\* Positions of the trace at which the changelog was generated.
ChangelogAt == { i \in DOMAIN calls : calls[i] = <<"primary", "changelog.generate">> }

\* Operation op of the primary ClientSet was invoked before position i.
Before(op, i) == \E j \in 1..(i - 1) : calls[j] = <<"primary", op>>

\* C11: the changelog is generated at most once in a run and exactly once
\* in a run that resolves.  With a recommendation increment it is generated
\* after the manifest bump and the afterBump hook (when configured) and
\* before the beforeStage hook and the staging; otherwise it is generated
\* before the version prompt, validate(), the beforeBump hook and the bump.
C11_ChangelogOnce ==
    /\ Cardinality(ChangelogAt) <= 1
    /\ pc = "resolved" => Cardinality(ChangelogAt) = 1
    /\ \A i \in ChangelogAt :
         IF IsRecommendation(cfg.increment)
         THEN /\ Before("shell.bump", i)
              /\ "afterBump" \in cfg.scripts => Before("hook.afterBump", i)
              /\ ~Before("hook.beforeStage", i)
              /\ ~Before("git.stage", i)
         ELSE /\ ~Before("prompt.incrementList", i)
              /\ ~Before("version.validate", i)
              /\ ~Before("hook.beforeBump", i)
              /\ ~Before("shell.bump", i)
    /\ \A i \in DOMAIN calls :
         (calls[i] \in { <<"primary", "hook.beforeStage">>, <<"primary", "git.stage">> }
            \/ (~IsRecommendation(cfg.increment) /\ calls[i] = <<"primary", "shell.bump">>))
           => \E j \in ChangelogAt : j < i

\* A finished run with a recommendation increment and every hook configured.
C11_Witness ==
    /\ pc = "resolved"
    /\ IsRecommendation(cfg.increment)
    /\ Called("primary", "hook.afterBump")
    /\ Called("primary", "hook.beforeStage")
    /\ Cardinality(ChangelogAt) = 1

\* The statement the run is at, or the one it was at when it threw.
EffPc == IF pc \in {"catch", "rejected"} THEN thrownAt.pc ELSE pc

\* Statements of runTasks that follow the primary release sequence.
PostPrimary ==
    { "dist.pushd", "dist.init", "dist.handleTagOptions", "dist.clients",
      "dist.release", "dist.popd", "dist.rm", "metrics.end", "done", "resolved" }

\* The release sequence of the ClientSet who has passed tasks.js 176-178.
UrlsDue(who) ==
    IF who = "primary"
    THEN target = "dist" \/ EffPc \in {"r.return"} \cup PostPrimary
    ELSE target = "dist" /\ EffPc \in {"r.return"} \cup PostPrimary

OneIf(cond) == IF cond THEN 1 ELSE 0

\* C12: for each ClientSet, once its release sequence is past the wrap-up
\* there is exactly one URL line for a client whose isReleased / isPublished
\* flag is set and none for a client whose flag is not set, and before that
\* there is none at all; a flag is set only for a client whose step was
\* enabled, confirmed and carried out (for npm: a publish command that
\* succeeded, never for a private package).
C12_UrlLines ==
    \A who \in Targets :
        /\ Count(who, "log.url.github") = OneIf(UrlsDue(who) /\ clients[who].ghReleased)
        /\ Count(who, "log.url.gitlab") = OneIf(UrlsDue(who) /\ clients[who].glReleased)
        /\ Count(who, "log.url.npm") = OneIf(UrlsDue(who) /\ clients[who].isPublished)
        /\ clients[who].ghReleased
              => (cfg.opts[who].github.release /\ Called(who, "github.release"))
        /\ clients[who].glReleased
              => (cfg.opts[who].gitlab.release /\ Called(who, "gitlab.release"))
        /\ clients[who].isPublished
              => /\ cfg.opts[who].npm.publish /\ ~cfg.opts[who].npm.private
                 /\ \E k \in DOMAIN npmRuns :
                       npmRuns[k].who = who /\ npmRuns[k].result = "ok"

\* A finished interactive run in which the GitHub release was declined at
\* its prompt and the package was published.
C12_Witness ==
    /\ pc = "resolved"
    /\ cfg.opts.primary.github.release
    /\ Called("primary", "prompt.ghRelease")
    /\ ~Called("primary", "github.release")
    /\ ~Called("primary", "log.url.github")
    /\ Called("primary", "log.url.npm")

\* Hooks configured for the ClientSet who.
ScriptsOf(who) ==
    IF who = "primary" THEN cfg.scripts
    ELSE IF cfg.distRepo THEN cfg.distScripts ELSE {}

HooksOf(who) == IF who = "primary" THEN Hooks ELSE DistHooks

\* C13: a hook is never run more than once and never when it is not
\* configured; in a run that resolves every configured hook of the project
\* and of the distribution target has run exactly once; and a release
\* sequence that is past its wrap-up has run its afterRelease hook when one
\* is configured, whatever steps of the sequence are enabled.
C13_HooksOnce ==
    \A who \in Targets :
        /\ \A h \in Hooks :
              /\ Count(who, "hook." \o h) <= 1
              /\ (h \notin HooksOf(who) \/ h \notin ScriptsOf(who))
                    => Count(who, "hook." \o h) = 0
              /\ (pc = "resolved" /\ h \in HooksOf(who) \cap ScriptsOf(who))
                    => Count(who, "hook." \o h) = 1
        /\ (UrlsDue(who) /\ "afterRelease" \in ScriptsOf(who))
              => Count(who, "hook.afterRelease") = 1

\* A finished run with every hook configured for both targets and every
\* step of the primary release sequence disabled.
C13_Witness ==
    /\ pc = "resolved"
    /\ cfg.scripts = Hooks
    /\ cfg.distRepo /\ cfg.distScripts = DistHooks
    /\ cfg.opts.primary = AllOff
    /\ Called("primary", "hook.afterRelease")
    /\ Called("dist", "hook.beforeStage")
    /\ Called("dist", "hook.afterRelease")

\* Calls of the distribution sub-release, tasks.js 185-191 (prepareDistRepo
\* and its beforeStage hook belong to the staging before the primary release).
DistSubRelease(call) ==
    \/ call \in { <<"run", "shell.pushd">>, <<"run", "shell.popd">>, <<"run", "rm stageDir">> }
    \/ call[1] = "dist" /\ call[2] \notin {"prepareDistRepo", "hook.beforeStage"}

\* C14: a call of the distribution sub-release is made only with a
\* distribution repository configured, only once the primary release
\* sequence has returned without error, and after every call on the primary
\* ClientSet; every release and publish call, of the distribution ClientSet
\* as of the primary one, is handed the version, isPreRelease and changelog
\* resolved before the primary sequence, so any two calls agree on them; a
\* run with a distribution repository that resolves has run the sub-release.
C14_DistAfterPrimary ==
    /\ (target = "dist" \/ \E i \in DOMAIN calls : DistSubRelease(calls[i]))
          => (cfg.distRepo /\ UrlsDue("primary"))
    /\ \A i, j \in DOMAIN calls :
          (DistSubRelease(calls[i]) /\ calls[j][1] = "primary") => j < i
    /\ \A k \in DOMAIN passed :
          LET a == passed[k]
          IN /\ a.version = v.version
             /\ a.version # NoVersion
             /\ a.op \in {"github.release", "npm.publish"} => a.isPreRelease = v.isPreRelease
             /\ a.op \in {"github.release", "gitlab.release"}
                   => (a.changelog = changelog /\ a.changelog = Generated)
             /\ \A l \in DOMAIN passed :
                   LET b == passed[l]
                   IN (a.who = "primary" /\ b.who = "dist" /\ a.op = b.op) => k < l
    /\ (pc = "resolved" /\ cfg.distRepo)
          => (target = "dist" /\ Called("run", "shell.pushd") /\ Called("run", "shell.popd"))

\* A finished run that released on GitHub and published for the project
\* and for the distribution repository.
C14_Witness ==
    /\ pc = "resolved"
    /\ cfg.distRepo
    /\ \A who \in Targets :
          \A op \in {"github.release", "gitlab.release", "npm.publish"} :
             \E k \in DOMAIN passed : passed[k].who = who /\ passed[k].op = op

\* Every `npm publish` command run by the npm client of who comes after
\* `npm ping` and `npm whoami` of that client, whose validate() did not throw.
PublishValidated(who) ==
    \A k \in DOMAIN calls :
        calls[k] = <<who, "npm publish">>
            => /\ NpmValidateError(cfg.opts[who].npm) = Null
               /\ \E i, j \in 1..(k - 1) :
                     /\ i < j
                     /\ calls[i] = <<who, "npm ping">>
                     /\ calls[j] = <<who, "npm whoami">>

\* C15: every `npm publish` command of a run, of the primary and of the
\* distribution ClientSet, is preceded by a successful registry and
\* authentication validation of the npm client that runs it.
C15_PublishValidated == \A who \in Targets : PublishValidated(who)

\* setLatestVersion and bump resolve no version for the options of the run.
Unresolved == Bumped(LatestVersion, cfg.increment, cfg.preRelease) = NoVersion

VersionPromptOps == {"prompt.incrementList", "prompt.version"}

\* Positions of the trace at which Version.validate() was called.
ValidateAt == { i \in DOMAIN calls : calls[i] = <<"primary", "version.validate">> }

\* C16: the version prompts are shown only in interactive mode and only when
\* no version was resolved; then the increment list is shown, followed by
\* the literal-version prompt when no increment is picked, before validate()
\* is called.  In unattended mode a run without a resolved version is
\* rejected by validate() with InvalidVersionError and the manifest is never
\* bumped.  validate() is called at most once, after any version prompt, and
\* exactly once before the manifest bump or any other mutation.
C16_VersionPrompt ==
    /\ Cardinality(ValidateAt) <= 1
    /\ (~cfg.isInteractive \/ ~Unresolved) => AllOps \cap VersionPromptOps = {}
    /\ \A i \in DOMAIN calls :
          /\ calls[i][2] \in VersionPromptOps => \A j \in ValidateAt : i < j
          /\ calls[i][2] = "prompt.version"
                => (i > 1 /\ calls[i - 1] = <<"primary", "prompt.incrementList">>)
          /\ calls[i][2] \in MutatingOps => \E j \in ValidateAt : j < i
    /\ (cfg.isInteractive /\ Unresolved /\ ValidateAt # {})
          => Count("primary", "prompt.incrementList") = 1
    /\ (~cfg.isInteractive /\ Unresolved /\ ValidateAt # {})
          => /\ thrown = "InvalidVersionError"
             /\ thrownAt.pc = "version.validate"
             /\ pc \in {"catch", "rejected"}
             /\ AllOps \cap MutatingOps = {}
             /\ pc = "rejected" => Rejected("InvalidVersionError")

\* A finished interactive run whose version was typed at the prompt.
C16_Witness ==
    /\ pc = "resolved"
    /\ cfg.isInteractive
    /\ Unresolved
    /\ Called("primary", "prompt.version")
    /\ Called("primary", "shell.bump")

\* C17: a run that resolves returns a version that is set and strictly
\* exceeds the latestVersion it returns, which is the latest version of the
\* project; the manifest was bumped to this version, and every tag, remote
\* release and publish of the run, for either ClientSet, carries it.
C17_VersionExceeds ==
    /\ pc = "resolved" =>
          /\ result.state = "resolved"
          /\ result.version # NoVersion
          /\ result.latestVersion = LatestVersion
          /\ Greater(result.version, result.latestVersion)
          /\ \E k \in DOMAIN passed : passed[k].op = "shell.bump"
          /\ \A k \in DOMAIN passed : passed[k].version = result.version
          /\ \A k \in DOMAIN npmRuns : npmRuns[k].version = result.version
    /\ \A k \in DOMAIN passed :
          /\ passed[k].version # NoVersion
          /\ Greater(passed[k].version, LatestVersion)
          /\ passed[k].version = passed[1].version

\* A finished run whose version was typed at the prompt and that bumped,
\* tagged, released and published.
C17_Witness ==
    /\ pc = "resolved"
    /\ Called("primary", "prompt.version")
    /\ \A op \in {"shell.bump", "git.tag", "github.release", "gitlab.release", "npm.publish"} :
          \E k \in DOMAIN passed : passed[k].op = op

\* The steps of release(): statement, task and confirmation prompt.  In
\* interactive mode the asset upload is part of the GitHub release step.
StepsOf ==
    { [pc |-> "r.commit",     op |-> "git.commit",          prompt |-> "prompt.commit"],
      [pc |-> "r.tag",        op |-> "git.tag",             prompt |-> "prompt.tag"],
      [pc |-> "r.push",       op |-> "git.push",            prompt |-> "prompt.push"],
      [pc |-> "r.gh.release", op |-> "github.release",      prompt |-> "prompt.ghRelease"],
      [pc |-> "r.gh.assets",  op |-> "github.uploadAssets", prompt |-> "prompt.ghRelease"],
      [pc |-> "r.gl.release", op |-> "gitlab.release",      prompt |-> "prompt.glRelease"],
      [pc |-> "r.publish",    op |-> "npm.publish",         prompt |-> "prompt.publish"] }

\* The enable flag of the step whose task is op, for the ClientSet who.
Enabled(who, op) ==
    LET o == cfg.opts[who]
    IN CASE op = "git.commit" -> o.git.commit
         [] op = "git.tag" -> o.git.tag
         [] op = "git.push" -> o.git.push
         [] op = "github.release" -> o.github.release
         [] op = "github.uploadAssets" ->
               IF cfg.isInteractive THEN o.github.release ELSE o.github.assets
         [] op = "gitlab.release" -> o.gitlab.release
         [] op = "npm.publish" -> o.npm.publish

\* C18: the task of a disabled step is never invoked and no prompt is shown
\* for it; a step throws only when its task was invoked and failed, never
\* because it was skipped; and a release sequence that is past its wrap-up
\* has attempted every step according to the step's own flag: in unattended
\* mode the task of every enabled step was invoked once, in interactive
\* mode the prompt of every enabled step was shown once and its task
\* invoked at most once, whatever steps before it were skipped or declined.
C18_SkipNeverAborts ==
    \A who \in Targets : \A s \in StepsOf :
        /\ ~Enabled(who, s.op) => (Count(who, s.op) = 0 /\ Count(who, s.prompt) = 0)
        /\ ~cfg.isInteractive => Count(who, s.prompt) = 0
        /\ Called(who, s.op) => (cfg.isInteractive => Called(who, s.prompt))
        /\ (thrown # Null /\ target = who /\ thrownAt.pc = s.pc)
              => calls[thrownAt.n] = <<who, s.op>>
        /\ UrlsDue(who) =>
              IF cfg.isInteractive
              THEN /\ Count(who, s.prompt) = OneIf(Enabled(who, s.op))
                   /\ Count(who, s.op) <= 1
              ELSE Count(who, s.op) = OneIf(Enabled(who, s.op))

\* A finished interactive run in which the commit and the publish were
\* declined and the tag and the GitLab release, asked for later, were made.
C18_Witness ==
    /\ pc = "resolved"
    /\ Called("primary", "prompt.commit") /\ ~Called("primary", "git.commit")
    /\ Called("primary", "git.tag")
    /\ Called("primary", "gitlab.release")
    /\ Called("primary", "prompt.publish") /\ ~Called("primary", "npm.publish")
    /\ Called("primary", "hook.afterRelease")

\* Handler invocations that came after the manifest files were bumped or
\* staged and before they were committed.
Risky == { k \in DOMAIN fired : fired[k].manifest \in {"bumped", "staged"} }

InFlight == Cardinality(Resetting) + OneIf(pc = "npm.run")

\* C20: at most one mutating operation is in flight at any time of a run,
\* the resets started by the SIGINT/exit handlers included.
C20_NoConcurrentMutation == InFlight <= 1

\* Every asset upload on the GitHub client of who follows a release made on
\* that client in the same run of the sequence, which succeeded.
UploadFollowsRelease(who) ==
    \A i \in DOMAIN calls :
        calls[i] = <<who, "github.uploadAssets">>
            => /\ clients[who].ghReleased
               /\ \E j \in 1..(i - 1) : calls[j] = <<who, "github.release">>

\* The upload is run by its own flag in unattended mode and under the
\* confirmation of the release in interactive mode.
UploadByMode(who) ==
    Called(who, "github.uploadAssets")
        => IF cfg.isInteractive
           THEN Called(who, "prompt.ghRelease")
           ELSE cfg.opts[who].github.assets

\* C21: an asset upload is attempted only on a release created earlier in
\* the same run of the sequence: never when github.release is disabled; in
\* interactive mode under the confirmation of the release and after the
\* release succeeded; in unattended mode only when github.assets is on.
C21_UploadAfterRelease ==
    \A who \in Targets :
        /\ UploadFollowsRelease(who)
        /\ UploadByMode(who)
        /\ ~cfg.opts[who].github.release => ~Called(who, "github.uploadAssets")

\* Positions of the trace at which operation op of the run was invoked.
RunAt(op) == { i \in DOMAIN calls : calls[i] = <<"run", op>> }

\* Order of the end of the distribution sub-release: the directory is
\* popped after the sequence of the distribution ClientSet has returned, the
\* stage directory is removed after that, from the directory of the
\* project, and the completion line of a run with a distribution
\* repository comes last; nothing of it happens more than once, or at all
\* without a distribution repository.
PopThenRemove ==
    /\ Cardinality(RunAt("shell.popd")) <= 1
    /\ Cardinality(RunAt("rm stageDir")) <= 1
    /\ ~cfg.distRepo => (RunAt("shell.popd") = {} /\ RunAt("rm stageDir") = {})
    /\ RunAt("shell.popd") # {} => (target = "dist" /\ UrlsDue("dist"))
    /\ \A i \in RunAt("rm stageDir") :
          /\ \E j \in RunAt("shell.popd") : j < i
          /\ cwd = <<"project">>
    /\ \A i \in RunAt("log.done") :
          cfg.distRepo => \E j \in RunAt("rm stageDir") : j < i

\* C22 as stated: moreover, every run that configured a distribution
\* repository has removed the stage directory exactly once when it settles.
C22_Original ==
    /\ PopThenRemove
    /\ (result.state # "pending" /\ cfg.distRepo)
          => Cardinality(RunAt("rm stageDir")) = 1

\* C22 amended: moreover, a run that configured a distribution repository
\* and resolves has removed the stage directory exactly once; a run that is
\* rejected has removed it at most once, and not at all when the step that
\* threw comes before the removal.
C22_PopThenRemove ==
    /\ PopThenRemove
    /\ (pc = "resolved" /\ cfg.distRepo)
          => (Cardinality(RunAt("shell.popd")) = 1 /\ Cardinality(RunAt("rm stageDir")) = 1)
    /\ (thrown # Null /\ thrownAt.pc \notin {"dist.rm", "metrics.end"})
          => RunAt("rm stageDir") = {}

\* A finished run that released the distribution repository, popped the
\* directory and removed the stage directory.
C22_Witness ==
    /\ pc = "resolved"
    /\ cfg.distRepo
    /\ Called("dist", "git.push")
    /\ RunAt("shell.popd") # {}
    /\ RunAt("rm stageDir") # {}
    /\ cwd = <<"project">>

\* Positions of the trace at which the npm client of the project ran cmd.
NpmAt(cmd) == { i \in DOMAIN calls : calls[i] = <<"primary", cmd>> }

\* validate() of the npm client of the project has been called.
NpmValidated == Called("primary", "npm.validate")

-----------------------------------------------------------------------------
(* Dist-tag of the publish command, npm.js 43-64 *)

\* Arguments getTag is applied to: a tag or none, a version or none, with or
\* without a prerelease identifier.
TagArgs ==
    [ tag : {Null, "next"},
      version : {NoVersion} \cup [core : {2}, pre : {Null, "alpha"}],
      isPreRelease : BOOLEAN ]

\* The tag given to getTag, 'latest' when none is.
GivenTag(tag) == IF tag = Null THEN "latest" ELSE tag

\* C24: getTag answers the given tag ('latest' when none is given) whenever
\* isPreRelease is false or no version is given, otherwise the prerelease
\* identifier of the version, and the given tag again when the version has
\* none; every publish command, first attempt or OTP retry, carries the tag
\* getTag answers for the tag option of its client and the version and
\* isPreRelease of the run.
C24_ResolvedTag ==
    /\ \A a \in TagArgs :
         LET r == GetTag(a.tag, a.version, a.isPreRelease)
         IN /\ (~a.isPreRelease \/ a.version = NoVersion) => r = GivenTag(a.tag)
            /\ (a.isPreRelease /\ a.version # NoVersion /\ a.version.pre # Null)
                  => r = a.version.pre
            /\ (a.isPreRelease /\ a.version # NoVersion /\ a.version.pre = Null)
                  => r = GivenTag(a.tag)
    /\ \A k \in DOMAIN npmRuns :
         LET r == npmRuns[k]
             given == GivenTag(cfg.opts[r.who].npm.tag)
         IN /\ r.version = v.version /\ r.isPreRelease = v.isPreRelease
            /\ r.tag = IF v.isPreRelease /\ v.version.pre # Null
                       THEN v.version.pre ELSE given
            /\ r.tag = GetTag(cfg.opts[r.who].npm.tag, v.version, v.isPreRelease)

\* A prerelease published under its prerelease identifier on an OTP retry.
C24_Witness ==
    /\ Len(RunsOf("primary")) >= 2
    /\ v.isPreRelease
    /\ npmRuns[Len(npmRuns)].tag = "alpha"
    /\ npmRuns[Len(npmRuns)].otp # NoOtp
    /\ npmRuns[Len(npmRuns)].result = "ok"

-----------------------------------------------------------------------------
(* Attempts of one publish invocation, npm.js 52-79 *)

\* A publish invocation has begun; `pub` holds the arguments of the last one.
PublishBegun == Called("primary", "npm.publish") \/ Called("dist", "npm.publish")

\* The ClientSet of the last publish invocation.
LastPublisher == IF Called("dist", "npm.publish") THEN "dist" ELSE "primary"

\* The last publish invocation has not settled.
Publishing == PublishBegun /\ target = LastPublisher /\ pc \in PublishPcs

\* One plus the passwords supplied so far is the number of commands run,
\* once the command of the password just supplied has been started.
AttemptsCounted ==
    (PublishBegun /\ pc # "npm.publish")
        => Len(RunsOf(LastPublisher)) = 1 + pub.asked

\* At most one command is running, the last one, while publish waits for it.
OneOutstanding ==
    \A k \in DOMAIN npmRuns :
        npmRuns[k].result = "running"
            => k = Len(npmRuns) /\ pc = "npm.run" /\ target = npmRuns[k].who

\* A success or a failure that is not OTP-related ends the invocation, and so
\* does a callback that returns without a password.
SettlesAtOnce ==
    /\ \A who \in Targets :
         LET runs == RunsOf(who)
         IN \A k \in DOMAIN runs : k < Len(runs) => IsOtpError(runs[k].result)
    /\ PublishBegun =>
         LET runs == RunsOf(LastPublisher)
             last == runs[Len(runs)]
         IN /\ (runs # <<>> /\ last.result = "ok")
                  => ~Publishing /\ thrownAt.pc \notin PublishPcs
            /\ (runs # <<>> /\ last.result = PlainError)
                  => ~Publishing /\ thrown = PlainError /\ thrownAt.pc = "npm.run"
            /\ (Count(LastPublisher, "otpCallback") > pub.asked /\ pc # "otp.prompt")
                  => /\ ~Publishing /\ thrownAt.pc \notin PublishPcs
                     /\ Len(runs) = 1 + pub.asked

\* isPublished is set by a command that succeeded and stays set.
PublishedIffSucceeded ==
    \A who \in Targets :
        clients[who].isPublished <=> \E k \in DOMAIN npmRuns :
                                        npmRuns[k].who = who /\ npmRuns[k].result = "ok"

\* C25 as stated: for every publish invocation the commands run are one more
\* than the passwords the callback supplied, at most one attempt is
\* outstanding, the invocation settles as soon as an attempt succeeds, fails
\* with an error that is not OTP-related or the callback supplies no password,
\* and isPublished is set only by a success and never reset.
C25_Original ==
    /\ AttemptsCounted
    /\ OneOutstanding
    /\ SettlesAtOnce
    /\ PublishedIffSucceeded

\* C25: the same for every publish invocation of a package that is not
\* private; for a private package no command is run at all.
C25_PublishAttempts ==
    /\ PublishBegun =>
         IF cfg.opts[LastPublisher].npm.private
         THEN RunsOf(LastPublisher) = <<>>
         ELSE AttemptsCounted
    /\ OneOutstanding
    /\ SettlesAtOnce
    /\ PublishedIffSucceeded

\* Every password the callback could supply was rejected and the callback
\* then returned without one: the invocation resolved after 1 + MaxOtp commands.
C25_Witness ==
    /\ pub.asked = MaxOtp
    /\ Len(RunsOf("primary")) = 1 + MaxOtp
    /\ Count("primary", "otpCallback") = 1 + MaxOtp
    /\ ~clients["primary"].isPublished
    /\ pc = "resolved"

-----------------------------------------------------------------------------
(* Frame of the distribution sub-release, tasks.js 138-179, 183-190 *)

\* The calls made on the ClientSet who, in order.
CallsOn(who, s) == SelectSeq(s, LAMBDA c : c[1] = who)

\* Operations of a release sequence that act on a repository or a registry.
ReleaseOps ==
    { "git.commit", "git.tag", "git.push", "github.release",
      "github.uploadAssets", "gitlab.release", "npm.publish", "npm publish" }

\* A step of or into the distribution sub-release: nothing is invoked on a
\* client of the project, the flags of those clients and their publish
\* commands stay as they are, and a flag that changes is one of the
\* distribution ClientSet.
DistStepFrame ==
    target' = "dist" =>
        /\ CallsOn("primary", calls') = CallsOn("primary", calls)
        /\ \A i \in (Len(calls) + 1)..Len(calls') :
              /\ calls'[i][1] \in {"dist", "run"}
              /\ calls'[i][1] = "run" => calls'[i][2] \notin ReleaseOps
        /\ clients'["primary"] = clients["primary"]
        /\ SelectSeq(npmRuns', LAMBDA r : r.who = "primary") = RunsOf("primary")
        /\ SelectSeq(passed', LAMBDA a : a.who = "primary")
              = SelectSeq(passed, LAMBDA a : a.who = "primary")
        /\ \A op \in {"log.url.github", "log.url.gitlab", "log.url.npm"} :
              Cardinality({ i \in DOMAIN calls' : calls'[i] = <<"primary", op>> }) <= 1

\* C26: during the distribution sub-release no commit, tag, push, release,
\* upload or publish is invoked on a client of the primary repository, the
\* isReleased / isPublished flags of those clients do not change, and no URL
\* of a primary client is logged a second time: the release sequence run
\* against the distribution ClientSet acts on that ClientSet only.
C26_DistFrame == [][DistStepFrame]_vars

\* A finished run whose sub-release released and published for the
\* distribution repository, after a primary sequence that released on GitHub
\* and did not publish.
C26_Witness ==
    /\ pc = "resolved"
    /\ target = "dist"
    /\ clients["primary"].ghReleased /\ ~clients["primary"].isPublished
    /\ clients["dist"].isPublished
    /\ Count("primary", "log.url.github") = 1
    /\ Count("dist", "log.url.npm") = 1
    /\ Count("primary", "npm.publish") = 0
    /\ Called("dist", "git.push")

====
